---- MODULE Spec2Model ----
\* Model of the IPknot batch script: load_data, predict_structure_with_ipknot,
\* process_data and the __main__ entry point of src/f.py, together with the
\* output file, the temporary FASTA artifact and the external tool.
EXTENDS Integers, Sequences, FiniteSets, TLC

\* ---------------------------------------------------------------- bounds
MaxRows == 2        \* rows of the input table
MaxOut  == 3        \* tokens of the tool's standard output
MaxResume == 1      \* rows of an output file the script is started on again

\* ---------------------------------------------------------------- values
\* a missing cell (pandas NaN / None)
Null == "<NaN>"
\* the absence-signal returned by the adapter
None == "<None>"
NL == "\n"
Dots == "((..))"
Tokens == {NL, Dots}
Ids == {"A", "B"}
SeqTexts == {"ACGU", "GGCC", ""}
SeqCells == {"ACGU", "", Null}

\* pandas' default NA texts (the ones that the cells of this model can hold)
NaTexts == {"", "NA", "NaN"}

\* variant: an empty field is kept as an empty string (keep_default_na off for it)
TextToCell_keep_empty(t) == IF t \in NaTexts \ {""} THEN Null ELSE t

\* read_csv's parsing of one field
TextToCell(t) == IF t \in NaTexts THEN Null ELSE t

\* to_csv's formatting of one cell (na_rep is the empty string)
CellToText(c) == IF c = Null THEN "" ELSE c

isnull(c) == c = Null

\* the rows a table of a given mode can hold: a CSV file holds texts, a
\* DataFrame handed to process_data holds cells
InputRows(m) ==
    [id : Ids, seq : IF m = "main" THEN SeqTexts ELSE SeqCells]

\* the end-to-end scenario of the specification
Scenario == <<[id |-> "A", seq |-> "ACGU"], [id |-> "B", seq |-> ""],
              [id |-> "A", seq |-> "ACGU"]>>

Tables(m) == UNION {[1..n -> InputRows(m)] : n \in 0..MaxRows} \cup {Scenario}

Texts == UNION {[1..n -> Tokens] : n \in 0..MaxOut}

\* ---------------------------------------------------------------- helpers
RECURSIVE SelectRows(_, _)
SelectRows(s, keep) ==
    IF s = <<>> THEN <<>>
    ELSE IF keep[1] THEN <<Head(s)>> \o SelectRows(Tail(s), Tail(keep))
         ELSE SelectRows(Tail(s), Tail(keep))

\* pd.read_csv of the input file: every field parsed
read_input(file) == [k \in 1..Len(file) |->
                        [id |-> TextToCell(file[k].id), seq |-> TextToCell(file[k].seq)]]

\* variant: the result of dropna is not assigned
dropna_unassigned(t) == t

\* df.dropna(subset=[sequence_column])
dropna(t) == SelectRows(t, [k \in 1..Len(t) |-> ~isnull(t[k].seq)])

\* variant: keep='last'
drop_duplicates_keep_last(t) ==
    SelectRows(t, [k \in 1..Len(t) |-> \A j \in (k+1)..Len(t) : t[j].seq # t[k].seq])

\* df.drop_duplicates(subset=[sequence_column]): keep='first'
drop_duplicates(t) ==
    SelectRows(t, [k \in 1..Len(t) |-> \A j \in 1..(k-1) : t[j].seq # t[k].seq])

\* variant: str.split() without a separator, which drops the empty fields
RECURSIVE split_whitespace(_)
split_whitespace(text) ==
    IF text = <<>> THEN <<>>
    ELSE LET rest == split_whitespace(Tail(text))
         IN IF Head(text) = NL THEN rest
            ELSE IF Len(text) >= 2 /\ text[2] # NL
                   THEN <<Head(text) \o Head(rest)>> \o Tail(rest)
                   ELSE <<Head(text)>> \o rest

\* str.split('\n') of a text given as its tokens
RECURSIVE split(_)
split(text) ==
    IF text = <<>> THEN <<"">>
    ELSE LET rest == split(Tail(text))
         IN IF Head(text) = NL THEN <<"">> \o rest
            ELSE <<Head(text) \o Head(rest)>> \o Tail(rest)

\* the output file
Absent == [state |-> "absent", header |-> FALSE, lines |-> <<>>]
Truncated == [state |-> "file", header |-> FALSE, lines |-> <<>>]

to_csv_row(r) == [id |-> CellToText(r.id), seq |-> CellToText(r.seq),
                  structure |-> CellToText(r.structure)]

read_csv_row(l) == [id |-> TextToCell(l.id), seq |-> TextToCell(l.seq),
                    structure |-> TextToCell(l.structure)]

\* DataFrame.to_csv(output_path, index=False): the complete file
to_csv(acc) == [state |-> "file", header |-> TRUE,
                lines |-> [k \in 1..Len(acc) |-> to_csv_row(acc[k])]]

\* pd.read_csv(output_path) of a file that has a header
read_csv(f) == [k \in 1..Len(f.lines) |-> read_csv_row(f.lines[k])]

\* variant: `if structure != ""`
truthy_not_empty(s) == s # ""

\* variant: `if structure is not None`
truthy_not_none(s) == s # None

\* `if structure:` -- None and the empty string are falsy
truthy(s) == s # None /\ s # ""

\* ---------------------------------------------------------------- state
VARIABLES
    mode,          \* "main": the entry point runs; "direct": process_data is called with a table
    input,         \* the input file's rows (main) or the table handed to process_data (direct)
    pc,            \* position of the control flow
    table,         \* df as passed to process_data
    df,            \* df after drop_duplicates
    i,             \* position of the iteration over df (1-based)
    processed_df,  \* the accumulator
    disk,          \* the file at output_path
    startDisk,     \* the file at output_path when process_data started
    durable,       \* the file as the last completed to_csv (or the start) left it
    tmp,           \* the temporary artifact of the current adapter call exists
    named,         \* temp_file_name is bound in the current adapter call
    proc,          \* the ipknot subprocess of the current call is running
    outcome,       \* how the tool ended in the current call
    stdout,        \* result.stdout, as tokens
    structure,     \* the adapter's return value
    exc,           \* the exception in flight
    cleanupRaised, \* the finally block of the current call raised
    calls,         \* rows handed to the adapter in this run, in order
    allDots,       \* every adapter call of this run returned Dots
    dropped,       \* the count load_data logged
    loadErrors,    \* error lines logged by load_data
    errlogs,       \* error lines logged by the entry point
    oklogs         \* success lines logged by the entry point

vars == <<mode, input, pc, table, df, i, processed_df, disk, startDisk,
          durable, tmp, named, proc, outcome, stdout, structure, exc,
          cleanupRaised, calls, allDots, dropped, loadErrors, errlogs, oklogs>>

inputVars == <<mode, input>>
adapterVars == <<tmp, named, proc, outcome, stdout, structure, cleanupRaised>>
logVars == <<dropped, loadErrors, errlogs, oklogs>>

Init ==
    /\ mode \in {"main", "direct"}
    /\ input \in Tables(mode)
    /\ pc = IF mode = "main" THEN "load" ELSE "begin"
    /\ table = IF mode = "main" THEN <<>> ELSE input
    /\ df = <<>>
    /\ i = 0
    /\ processed_df = <<>>
    /\ disk = Absent
    /\ startDisk = Absent
    /\ durable = Absent
    /\ tmp = FALSE
    /\ named = FALSE
    /\ proc = FALSE
    /\ outcome = "none"
    /\ stdout = <<>>
    /\ structure = None
    /\ exc = "none"
    /\ cleanupRaised = FALSE
    /\ calls = <<>>
    /\ allDots = TRUE
    /\ dropped = 0
    /\ loadErrors = 0
    /\ errlogs = 0
    /\ oklogs = 0

\* ---------------------------------------------------------------- load_data
\* lines 18-22: read, drop the rows whose sequence is missing, log the count
load_data ==
    /\ pc = "load"
    /\ table' = dropna(read_input(input))
    /\ dropped' = Len(input) - Len(table')
    /\ pc' = "begin"
    /\ UNCHANGED <<inputVars, df, i, processed_df, disk, startDisk, durable,
                   adapterVars, exc, calls, allDots, loadErrors, errlogs, oklogs>>

\* lines 23-25: the file cannot be read; log and re-raise
load_data_fails ==
    /\ pc = "load"
    /\ loadErrors' = loadErrors + 1
    /\ exc' = "ReadError"
    /\ pc' = "propagate"
    /\ UNCHANGED <<inputVars, table, df, i, processed_df, disk, startDisk,
                   durable, adapterVars, calls, allDots, dropped, errlogs, oklogs>>

\* ---------------------------------------------------------------- process_data
\* lines 44-47: the accumulator the run starts from
\* variant: the existing file is ignored
start_accumulator_fresh(d) == <<>>

start_accumulator(d) == IF d.state = "absent" THEN <<>> ELSE read_csv(d)

\* lines 44-47: resume from the output file or start an empty accumulator
process_data_init ==
    /\ pc = "begin"
    /\ startDisk' = disk
    /\ durable' = disk
    /\ IF disk.state = "absent"
         THEN /\ processed_df' = start_accumulator(disk)
              /\ pc' = "dedup"
              /\ UNCHANGED exc
         ELSE IF ~disk.header
                THEN \* a file of zero bytes: read_csv raises EmptyDataError
                     /\ exc' = "EmptyDataError"
                     /\ pc' = "propagate"
                     /\ UNCHANGED processed_df
                ELSE /\ processed_df' = start_accumulator(disk)
                     /\ pc' = "dedup"
                     /\ UNCHANGED exc
    /\ UNCHANGED <<inputVars, table, df, i, disk, adapterVars, calls, allDots,
                   logVars>>

\* lines 50-51
process_data_dedup ==
    /\ pc = "dedup"
    /\ df' = drop_duplicates(table)
    /\ i' = 1
    /\ pc' = "loop"
    /\ UNCHANGED <<inputVars, table, processed_df, disk, startDisk, durable,
                   adapterVars, exc, calls, allDots, logVars>>

\* lines 53-57: the loop head, the null re-check and the call of the adapter
\* variant: records whose identifier is already in the accumulator are skipped
loop_enters_unless_saved(row) ==
    /\ ~isnull(row.seq)
    /\ \A k \in 1..Len(processed_df) : processed_df[k].id # row.id

\* variant: the null re-check is missing
loop_enters_unchecked(row) == TRUE

loop_enters(row) == ~isnull(row.seq)

\* variant: the iteration stops one row early
loop_done_early(k, d) == k >= Len(d)

\* line 53: iterrows is exhausted
loop_done(k, d) == k > Len(d)

process_data_loop ==
    /\ pc = "loop"
    /\ IF loop_done(i, df)
         THEN /\ pc' = "returned"
              /\ UNCHANGED <<i, calls>>
         ELSE IF loop_enters(df[i])
                THEN /\ calls' = Append(calls, df[i])
                     /\ pc' = "mktemp"
                     /\ UNCHANGED i
                ELSE /\ i' = i + 1
                     /\ pc' = "loop"
                     /\ UNCHANGED calls
    /\ UNCHANGED <<inputVars, table, df, processed_df, disk, startDisk, durable,
                   adapterVars, exc, allDots, logVars>>

\* ---------------------------------------------------------------- predict_structure_with_ipknot
\* variant: delete=True and the tool started after the with block, so the
\* artifact is gone when the tool runs
adapter_mktemp_deleted_on_close ==
    /\ pc = "mktemp"
    /\ \/ /\ tmp' = FALSE
          /\ named' = TRUE
          /\ pc' = "spawn"
          /\ UNCHANGED exc
       \/ /\ exc' = "OSError"
          /\ pc' = "finally"
          /\ UNCHANGED <<tmp, named>>
    /\ UNCHANGED <<inputVars, table, df, i, processed_df, disk, startDisk,
                   durable, proc, outcome, stdout, structure, cleanupRaised, calls,
                   allDots, logVars>>

\* lines 30-33: create and fill the temporary artifact, or fail to create it
adapter_mktemp ==
    /\ pc = "mktemp"
    /\ \/ /\ tmp' = TRUE
          /\ named' = TRUE
          /\ pc' = "spawn"
          /\ UNCHANGED exc
       \/ /\ exc' = "OSError"
          /\ pc' = "finally"
          /\ UNCHANGED <<tmp, named>>
    /\ UNCHANGED <<inputVars, table, df, i, processed_df, disk, startDisk,
                   durable, proc, outcome, stdout, structure, cleanupRaised, calls,
                   allDots, logVars>>

\* line 34: subprocess.run starts ipknot, or the program cannot be started
adapter_spawn ==
    /\ pc = "spawn"
    /\ \/ /\ proc' = TRUE
          /\ pc' = "running"
          /\ UNCHANGED exc
       \/ /\ exc' = "FileNotFoundError"
          /\ pc' = "finally"
          /\ UNCHANGED proc
    /\ UNCHANGED <<inputVars, table, df, i, processed_df, disk, startDisk,
                   durable, tmp, named, outcome, stdout, structure, cleanupRaised,
                   calls, allDots, logVars>>

\* lines 36-38: check=True turns a non-zero exit into CalledProcessError,
\* which is caught, logged as a warning and mapped to None
nonzero_result == None

\* variant: the second field
StructureIndex_second == 3 - 1

\* line 35: the index of result.stdout.split('\n')[2], counted from 1
StructureIndex == 3

\* lines 34-38: the tool exits; after a zero exit line 35 takes the structure
\* from the captured output or raises IndexError
adapter_tool_exit ==
    /\ pc = "running"
    /\ proc' = FALSE
    /\ \/ /\ outcome' = "nonzero"
          /\ structure' = nonzero_result
          /\ UNCHANGED <<stdout, exc>>
       \/ \E text \in Texts :
            /\ outcome' = "zero"
            /\ stdout' = text
            /\ IF Len(split(text)) >= StructureIndex
                 THEN /\ structure' = split(text)[StructureIndex]
                      /\ UNCHANGED exc
                 ELSE /\ exc' = "IndexError"
                      /\ UNCHANGED structure
    /\ pc' = "finally"
    /\ UNCHANGED <<inputVars, table, df, i, processed_df, disk, startDisk,
                   durable, tmp, named, cleanupRaised, calls, allDots, logVars>>

\* lines 39-40: os.unlink(temp_file_name); the name is unbound when the
\* artifact was never created, and the lookup raises UnboundLocalError
adapter_finally ==
    /\ pc = "finally"
    /\ IF named
         THEN /\ tmp' = FALSE
              /\ UNCHANGED <<exc, cleanupRaised>>
         ELSE /\ exc' = "UnboundLocalError"
              /\ cleanupRaised' = TRUE
              /\ UNCHANGED tmp
    /\ stdout' = <<>>
    /\ pc' = "ret"
    /\ UNCHANGED <<inputVars, table, df, i, processed_df, disk, startDisk,
                   durable, named, proc, outcome, structure, calls, allDots,
                   logVars>>

\* ---------------------------------------------------------------- process_data, after the call
\* line 59: the row with its derived column
with_structure(row, st) == [id |-> row.id, seq |-> row.seq, structure |-> st]

\* variant: the new row is put in front
concat_in_front(acc, row) == <<row>> \o acc

\* line 60: pd.concat([processed_df, pd.DataFrame([row])], ignore_index=True)
concat(acc, row) == Append(acc, row)

\* variant: to_csv stands after the if/else, so a skipped row is saved as well
process_data_after_call_saves_always ==
    /\ pc = "ret"
    /\ IF exc # "none"
         THEN /\ pc' = "propagate"
              /\ UNCHANGED <<processed_df, allDots>>
         ELSE IF truthy(structure)
                THEN /\ processed_df' = concat(processed_df, with_structure(df[i], structure))
                     /\ pc' = "write"
                     /\ allDots' = (allDots /\ structure = Dots)
                ELSE /\ pc' = "write"
                     /\ allDots' = FALSE
                     /\ UNCHANGED processed_df
    /\ named' = FALSE
    /\ structure' = None
    /\ outcome' = "none"
    /\ cleanupRaised' = FALSE
    /\ UNCHANGED <<inputVars, table, df, i, disk, startDisk, durable, tmp, proc,
                   stdout, exc, calls, logVars>>

\* lines 57-60, 63-64: the adapter raised, returned a structure, or returned nothing
process_data_after_call ==
    /\ pc = "ret"
    /\ IF exc # "none"
         THEN /\ pc' = "propagate"
              /\ UNCHANGED <<i, processed_df, allDots>>
         ELSE IF truthy(structure)
                THEN /\ processed_df' = concat(processed_df, with_structure(df[i], structure))
                     /\ pc' = "write"
                     /\ allDots' = (allDots /\ structure = Dots)
                     /\ UNCHANGED i
                ELSE /\ i' = i + 1
                     /\ pc' = "loop"
                     /\ allDots' = FALSE
                     /\ UNCHANGED processed_df
    /\ named' = FALSE
    /\ structure' = None
    /\ outcome' = "none"
    /\ cleanupRaised' = FALSE
    /\ UNCHANGED <<inputVars, table, df, disk, startDisk, durable, tmp, proc,
                   stdout, exc, calls, logVars>>

\* line 61, first half: to_csv opens output_path for writing, which empties it
write_open ==
    /\ pc = "write"
    /\ disk' = Truncated
    /\ pc' = "flush"
    /\ UNCHANGED <<inputVars, table, df, i, processed_df, startDisk, durable,
                   adapterVars, exc, calls, allDots, logVars>>

\* line 61: the writer's buffer is flushed while rows are still to come
write_partial ==
    /\ pc = "flush"
    /\ disk = Truncated
    /\ \E k \in 0..(Len(processed_df) - 1) :
         disk' = [state |-> "file", header |-> TRUE,
                  lines |-> SubSeq(to_csv(processed_df).lines, 1, k)]
    /\ UNCHANGED <<inputVars, pc, table, df, i, processed_df, startDisk, durable,
                   adapterVars, exc, calls, allDots, logVars>>

\* line 61, second half: everything is written and the file is closed
\* variant: only the new row is written
saved_file_last_row(acc) == to_csv(<<acc[Len(acc)]>>)

saved_file(acc) == to_csv(acc)

write_close ==
    /\ pc = "flush"
    /\ disk' = saved_file(processed_df)
    /\ durable' = disk'
    /\ pc' = "saved"
    /\ UNCHANGED <<inputVars, table, df, i, processed_df, startDisk,
                   adapterVars, exc, calls, allDots, logVars>>

\* line 62 and the next iteration
log_saved ==
    /\ pc = "saved"
    /\ i' = i + 1
    /\ pc' = "loop"
    /\ UNCHANGED <<inputVars, table, df, processed_df, disk, startDisk, durable,
                   adapterVars, exc, calls, allDots, logVars>>

\* ---------------------------------------------------------------- entry point
\* lines 66, 75-76: process_data returns; the entry point logs the success
main_success ==
    /\ pc = "returned"
    /\ oklogs' = IF mode = "main" THEN oklogs + 1 ELSE oklogs
    /\ pc' = "exit_ok"
    /\ UNCHANGED <<inputVars, table, df, i, processed_df, disk, startDisk,
                   durable, adapterVars, exc, calls, allDots, dropped, loadErrors,
                   errlogs>>

\* lines 77-78: the entry point logs the exception; a direct caller receives it
main_except ==
    /\ pc = "propagate"
    /\ IF mode = "main"
         THEN /\ errlogs' = errlogs + 1
              /\ pc' = "exit_error"
         ELSE /\ pc' = "raised"
              /\ UNCHANGED errlogs
    /\ UNCHANGED <<inputVars, table, df, i, processed_df, disk, startDisk,
                   durable, adapterVars, exc, calls, allDots, dropped, loadErrors,
                   oklogs>>

\* ---------------------------------------------------------------- the environment
Ended == {"exit_ok", "exit_error", "raised", "killed"}

\* the operating system ends the process at any point: its memory is gone,
\* the files stay as they are
kill ==
    /\ pc \notin Ended
    /\ pc' = "killed"
    /\ table' = <<>>
    /\ df' = <<>>
    /\ i' = 0
    /\ processed_df' = <<>>
    /\ named' = FALSE
    /\ outcome' = "none"
    /\ stdout' = <<>>
    /\ structure' = None
    /\ exc' = "none"
    /\ cleanupRaised' = FALSE
    /\ calls' = <<>>
    /\ allDots' = TRUE
    /\ UNCHANGED <<inputVars, disk, startDisk, durable, tmp, proc, logVars>>

\* the script is started again with the same input and the same output path
\* (on a file of at most MaxResume rows, and once only after a run that was
\* itself started on an existing file)
restart ==
    /\ pc \in Ended
    /\ Len(disk.lines) <= MaxResume
    /\ startDisk = Absent
    /\ pc' = IF mode = "main" THEN "load" ELSE "begin"
    /\ table' = IF mode = "main" THEN <<>> ELSE input
    /\ df' = <<>>
    /\ i' = 0
    /\ processed_df' = <<>>
    /\ startDisk' = disk
    /\ durable' = disk
    /\ tmp' = FALSE
    /\ named' = FALSE
    /\ proc' = FALSE
    /\ outcome' = "none"
    /\ stdout' = <<>>
    /\ structure' = None
    /\ exc' = "none"
    /\ cleanupRaised' = FALSE
    /\ calls' = <<>>
    /\ allDots' = TRUE
    /\ dropped' = 0
    /\ loadErrors' = 0
    /\ errlogs' = 0
    /\ oklogs' = 0
    /\ UNCHANGED <<inputVars, disk>>

Next ==
    \/ load_data
    \/ load_data_fails
    \/ process_data_init
    \/ process_data_dedup
    \/ process_data_loop
    \/ adapter_mktemp
    \/ adapter_spawn
    \/ adapter_tool_exit
    \/ adapter_finally
    \/ process_data_after_call
    \/ write_open
    \/ write_partial
    \/ write_close
    \/ log_saved
    \/ main_success
    \/ main_except
    \/ kill
    \/ restart

Spec == Init /\ [][Next]_vars

\* the steps of the script itself: it is one sequential process, so whatever
\* step is next is eventually taken (subprocess.run returns) unless the
\* process is killed
Step ==
    \/ load_data
    \/ load_data_fails
    \/ process_data_init
    \/ process_data_dedup
    \/ process_data_loop
    \/ adapter_mktemp
    \/ adapter_spawn
    \/ adapter_tool_exit
    \/ adapter_finally
    \/ process_data_after_call
    \/ write_open
    \/ write_close
    \/ log_saved
    \/ main_success
    \/ main_except

FairSpec == Spec /\ WF_vars(Step)

\* ================================================================ properties
Fields == {"id", "seq", "structure"}

\* cell x is what read_csv gives for the cell y that to_csv wrote
Reloads(x, y) == x = y \/ (x = Null /\ y \in NaTexts)

\* table r is the reload of the written table acc: same rows, same order
ReloadOf(r, acc) ==
    /\ Len(r) = Len(acc)
    /\ \A k \in 1..Len(acc) : \A f \in Fields : Reloads(r[k][f], acc[k][f])

CompleteFile(d) == d.state = "file" /\ d.header

IsPrefix(a, b) == Len(a) <= Len(b) /\ SubSeq(b, 1, Len(a)) = a

\* C1 -- per-row persistence: right after a checkpoint the output file is a
\* complete file whose reload has one row per accumulated row, in the same
\* order, each cell being the accumulator's cell as the CSV text reloads it
\* (an empty string reloads as missing); when the table came through
\* load_data the reload equals the accumulator exactly.
C1_PerRowPersistence ==
    pc = "saved" =>
        /\ CompleteFile(disk)
        /\ ReloadOf(read_csv(disk), processed_df)
        /\ mode = "main" => read_csv(disk) = processed_df

C1_Witness ==
    /\ pc = "saved"
    /\ mode = "main"
    /\ Len(processed_df) >= 2
    /\ startDisk.state = "absent"

\* C2 -- crash semantics, as claimed: whenever the process has been killed,
\* the output file is what the last completed checkpoint (or the start of the
\* run) left, so no checkpointed row is lost.
C2_CrashKeepsCheckpoints ==
    pc = "killed" => IsPrefix(durable.lines, disk.lines)

\* C3 -- adapter cleanup, as claimed: when the adapter has returned or raised,
\* its temporary artifact does not exist and the cleanup raised no error.
C3_AdapterCleanup ==
    pc = "ret" => (~tmp /\ ~cleanupRaised)

\* C4 -- result durability, as claimed: whenever process_data returns
\* normally a file exists at output_path and its reload is the returned table.
C4_ResultDurability ==
    pc = "returned" => (CompleteFile(disk) /\ ReloadOf(read_csv(disk), processed_df))

\* C5 -- adapter failure mapping: a non-zero exit makes the adapter return
\* None without an exception in flight, and the step process_data takes next
\* leaves the accumulator and the output file alone and moves to the next row.
C5_FailureMapping ==
    [][(pc = "ret" /\ outcome = "nonzero") =>
          /\ exc = "none"
          /\ structure = None
          /\ ~tmp
          /\ \/ pc' = "killed"
             \/ /\ pc' = "loop"
                /\ i' = i + 1
                /\ processed_df' = processed_df
                /\ disk' = disk]_vars

C5_Witness ==
    /\ pc = "ret"
    /\ outcome = "nonzero"
    /\ i < Len(df)
    /\ Len(processed_df) >= 1

ScenarioDone ==
    /\ input = Scenario
    /\ startDisk.state = "absent"
    /\ pc = "exit_ok"
    /\ allDots

\* C6 -- the scenario as claimed: load_data drops no row and, the tool
\* returning "((..))" for every call, the final table holds exactly the rows
\* A and B, each with its structure.
C6_ScenarioKeepsEmptySequence ==
    (ScenarioDone /\ mode = "main") =>
        /\ dropped = 0
        /\ Len(processed_df) = 2
        /\ processed_df[1].id = "A" /\ processed_df[1].structure = Dots
        /\ processed_df[2].id = "B" /\ processed_df[2].structure = Dots

\* C6 amended -- read from the input file, B's empty field is a missing value:
\* load_data drops that one row, the two A rows collapse to one, and the final
\* table and the output file hold exactly the row A with its structure. Only
\* a table handed to process_data with B's sequence as an empty string gives
\* the two rows A and B, and B's sequence then reloads from the file as missing.
C6_ScenarioDropsEmptySequence ==
    /\ (ScenarioDone /\ mode = "main") =>
          /\ dropped = 1
          /\ table = <<Scenario[1], Scenario[3]>>
          /\ processed_df = <<[id |-> "A", seq |-> "ACGU", structure |-> Dots]>>
          /\ CompleteFile(disk)
          /\ read_csv(disk) = processed_df
    /\ (ScenarioDone /\ mode = "direct") =>
          /\ processed_df = <<[id |-> "A", seq |-> "ACGU", structure |-> Dots],
                              [id |-> "B", seq |-> "", structure |-> Dots]>>
          /\ CompleteFile(disk)
          /\ read_csv(disk) = <<[id |-> "A", seq |-> "ACGU", structure |-> Dots],
                                [id |-> "B", seq |-> Null, structure |-> Dots]>>

C6_Witness == ScenarioDone /\ mode = "main" /\ Len(calls) = 1

\* positions at which process_data holds an accumulator
Accumulating == {"dedup", "loop", "mktemp", "spawn", "running", "finally",
                 "ret", "write", "flush", "saved", "returned", "exit_ok"}

\* C7 -- checkpoint resumption: the accumulator starts as the reload of the
\* file found at output_path (as no rows when there is none), and those rows
\* stay, in order, at the front of the accumulator, of every checkpoint
\* written and of the returned table.
C7_CheckpointResumption ==
    /\ pc = "dedup" =>
          processed_df = IF startDisk.state = "absent" THEN <<>> ELSE read_csv(startDisk)
    /\ (pc \in Accumulating /\ startDisk.state = "file") =>
          IsPrefix(read_csv(startDisk), processed_df)
    /\ (pc = "saved" /\ startDisk.state = "file") =>
          IsPrefix(read_csv(startDisk), read_csv(disk))

C7_Witness ==
    /\ pc = "saved"
    /\ startDisk.state = "file"
    /\ Len(startDisk.lines) >= 1
    /\ Len(processed_df) > Len(startDisk.lines)

\* C8 -- duplicate reprocessing on resume: whatever the output file held at
\* the start, a run that returns has handed every non-missing row of the
\* deduplicated input to the adapter, and when every call gave "((..))" the
\* accumulator is the starting rows followed by one new row per call, also for
\* records the starting rows already held.
C8_DuplicateReprocessing ==
    pc \in {"returned", "exit_ok"} =>
        /\ calls = dropna(df)
        /\ allDots =>
             processed_df = start_accumulator(startDisk)
                              \o [k \in 1..Len(calls) |-> with_structure(calls[k], Dots)]

C8_Witness ==
    /\ startDisk.state = "file"
    /\ pc = "exit_ok"
    /\ allDots
    /\ \E j, k \in 1..Len(processed_df) : j < k /\ processed_df[j] = processed_df[k]

\* newline characters of a text
newlines(text) == Cardinality({k \in 1..Len(text) : text[k] = NL})

\* lines a text prints: the fields between newlines, a last field that is
\* empty being the end of the text and not a line
lines_printed(text) ==
    LET parts == split(text)
    IN IF parts[Len(parts)] = "" THEN Len(parts) - 1 ELSE Len(parts)

FirstOf(t, r) ==
    \E j \in 1..Len(t) : t[j] = r /\ \A h \in 1..(j-1) : t[h].seq # r.seq

\* C10 -- deduplication: the rows iterated are, in original order, the first
\* rows of each sequence value of the table, so the adapter is handed each
\* sequence value at most once and with the identifier of its first row.
C10_Deduplication ==
    i >= 1 =>
        /\ \A k \in 1..Len(df) : FirstOf(table, df[k])
        /\ \A j \in 1..Len(table) : \E k \in 1..Len(df) : df[k].seq = table[j].seq
        /\ \A j, k \in 1..Len(df) : j < k => df[j].seq # df[k].seq
        /\ \A j, k \in 1..Len(calls) : j < k => calls[j].seq # calls[k].seq
        /\ \A k \in 1..Len(calls) : FirstOf(table, calls[k])

C10_Witness ==
    /\ pc = "returned"
    /\ Len(table) > Len(df)
    /\ Len(calls) = Len(df)
    /\ \E j, k \in 1..Len(table) :
          j < k /\ table[j].seq = table[k].seq /\ table[j].id # table[k].id

\* sub holds exactly the rows of full at the positions idx, in their order
KeptRows(sub, full, idx) ==
    /\ Len(sub) = Cardinality(idx)
    /\ \A k \in idx : sub[Cardinality({j \in idx : j <= k})] = full[k]

\* C11 -- loader filtering: what load_data returns is, in the original order,
\* exactly the rows of the parsed file whose sequence is not missing (an empty
\* field is parsed as missing), the count it logs is the number of rows of the
\* file minus the number of rows returned, and a file that cannot be read is
\* logged once by load_data and raised to the entry point.
C11_LoaderFiltering ==
    /\ (mode = "main" /\ pc \in {"begin"} \cup Accumulating) =>
          /\ KeptRows(table, read_input(input),
                      {k \in 1..Len(input) : input[k].seq \notin NaTexts})
          /\ \A k \in 1..Len(table) : table[k].seq # Null
          /\ dropped = Len(input) - Len(table)
          /\ loadErrors = 0
    /\ (pc \in {"propagate", "exit_error"} /\ exc = "ReadError") =>
          (loadErrors = 1 /\ table = <<>> /\ calls = <<>>)

C11_Witness ==
    /\ mode = "main"
    /\ pc = "begin"
    /\ dropped = 1
    /\ Len(table) = 1
    /\ input[1].seq = ""

\* positions inside one call of the adapter
InAdapter == {"mktemp", "spawn", "running", "finally"}

\* C12 -- a skip leaves the state unchanged: while the adapter works on a row
\* the accumulator, the output file and the position stay as they were when
\* the row was taken up; when it has returned None the next step leaves the
\* accumulator and the file alone and moves to the following row; and the
\* position never goes back during a run, so the row is not taken up again.
C12_SkipLeavesState ==
    [][/\ (pc \in InAdapter /\ pc' # "killed") =>
             (processed_df' = processed_df /\ disk' = disk /\ i' = i /\ calls' = calls)
       /\ (pc = "ret" /\ exc = "none" /\ structure = None /\ pc' # "killed") =>
             /\ processed_df' = processed_df
             /\ disk' = disk
             /\ calls' = calls
             /\ i' = i + 1
             /\ pc' = "loop"
       /\ (pc \in Accumulating /\ pc' \in Accumulating) =>
             (i' >= i /\ Len(calls') >= Len(calls))]_vars

C12_Witness ==
    /\ pc = "ret"
    /\ exc = "none"
    /\ structure = None
    /\ i = 2
    /\ Len(processed_df) = Len(start_accumulator(startDisk)) + 1
    /\ CompleteFile(disk)

\* the text has a third line
has_three_lines(text) ==
    \/ newlines(text) >= 3
    \/ newlines(text) = 2 /\ text[Len(text)] # NL

\* position of the n-th newline of a text (one past its end when there is none)
newline_at(text, n) ==
    IF newlines(text) < n THEN Len(text) + 1
    ELSE CHOOSE k \in 1..Len(text) :
            text[k] = NL /\ Cardinality({j \in 1..k : text[j] = NL}) = n

RECURSIVE join(_)
join(tokens) == IF tokens = <<>> THEN "" ELSE Head(tokens) \o join(Tail(tokens))

\* the characters between the second newline and the third (or the end)
third_line(text) ==
    join(SubSeq(text, newline_at(text, 2) + 1, newline_at(text, 3) - 1))

\* C13 -- structure extraction: after a zero exit whose output has at least
\* three lines the adapter raises nothing and the value it returns is the
\* third line of the output, whatever the other lines hold.
C13_StructureExtraction ==
    [][(pc = "finally" /\ outcome = "zero" /\ has_three_lines(stdout) /\ pc' = "ret") =>
          (exc' = "none" /\ structure' = third_line(stdout))]_vars

C13_Witness ==
    /\ pc = "ret"
    /\ outcome = "zero"
    /\ exc = "none"
    /\ structure = Dots

\* C14 -- an empty structure is a failure: after a call that raised nothing,
\* the row is appended (and the checkpoint started) exactly when the returned
\* value is a non-empty string; None and the empty string both leave the
\* accumulator and the file alone and move to the next row; so every row a
\* run has added carries a non-empty structure.
C14_EmptyStructureSkipped ==
    [][/\ (pc = "ret" /\ exc = "none" /\ pc' # "killed") =>
             IF structure \notin {None, ""}
               THEN /\ processed_df' = Append(processed_df, with_structure(df[i], structure))
                    /\ pc' = "write"
               ELSE /\ processed_df' = processed_df
                    /\ disk' = disk
                    /\ i' = i + 1
                    /\ pc' = "loop"
       /\ pc' \in Accumulating =>
             \A k \in (Len(start_accumulator(startDisk')) + 1)..Len(processed_df') :
                 processed_df'[k].structure \notin {None, "", Null}]_vars

C14_Witness ==
    /\ pc = "ret"
    /\ outcome = "zero"
    /\ exc = "none"
    /\ structure = ""
    /\ Len(processed_df) > Len(start_accumulator(startDisk))

\* rows the run has added to the accumulator it started from
Added == SubSeq(processed_df, Len(start_accumulator(startDisk)) + 1, Len(processed_df))

\* position in df of the record an added row was made from
PositionOf(r) == CHOOSE k \in 1..Len(df) : df[k].id = r.id /\ df[k].seq = r.seq

\* every added row comes from a record of df, and later rows from later records
InInputOrder ==
    /\ \A n \in 1..Len(Added) :
          \E k \in 1..Len(df) : df[k].id = Added[n].id /\ df[k].seq = Added[n].seq
    /\ \A m, n \in 1..Len(Added) : m < n => PositionOf(Added[m]) < PositionOf(Added[n])

\* C15 -- append-only accumulation in input order: within a run every step
\* keeps the accumulator as a prefix of the next one, every completed
\* checkpoint is the previous checkpoint (the file the run started from, for
\* the first) with exactly one line more at its end, and the rows added stand
\* in the order of their records in the deduplicated input.
C15_AppendOnly ==
    [][/\ (pc \in Accumulating /\ pc' \in Accumulating) =>
             IsPrefix(processed_df, processed_df')
       /\ (pc = "flush" /\ pc' = "saved") =>
             /\ Len(disk'.lines) = Len(durable.lines) + 1
             /\ IsPrefix(durable.lines, disk'.lines)
             /\ disk'.lines[Len(disk'.lines)] = to_csv_row(processed_df[Len(processed_df)])
       /\ pc' \in Accumulating => InInputOrder']_vars

C15_Witness ==
    /\ pc = "saved"
    /\ Len(Added) = 2
    /\ startDisk.state = "file"
    /\ Len(startDisk.lines) = 1

\* C16 -- termination and coverage: every run ends (it exits, raises or is
\* killed), and when process_data returns, the calls of the adapter are, in
\* input order and once each, exactly the rows of the deduplicated input whose
\* sequence is not missing, however many predictions failed.
C16_TerminationCoverage ==
    /\ (pc \notin Ended) ~> (pc \in Ended)
    /\ [](pc = "returned" =>
            KeptRows(calls, df, {k \in 1..Len(df) : df[k].seq # Null}))

C16_Witness ==
    /\ pc = "exit_ok"
    /\ Len(calls) = 2
    /\ Len(processed_df) = Len(start_accumulator(startDisk))

\* C17 -- artifact lifetime: the tool is started only while the artifact
\* exists, the artifact exists as long as the tool runs, it is deleted only
\* by the finally block after the tool has ended, and a call starts with no
\* artifact and no subprocess left from an earlier call of the run.
C17_ArtifactLifetime ==
    [][/\ proc => tmp
       /\ pc = "running" => (tmp /\ proc)
       /\ pc = "mktemp" => (~tmp /\ ~proc)
       /\ (~proc /\ proc') => (pc = "spawn" /\ tmp /\ tmp')
       /\ (tmp /\ ~tmp' /\ pc \notin Ended) => (pc = "finally" /\ ~proc)
       /\ (~tmp /\ tmp') => pc = "mktemp"]_vars

C17_Witness ==
    /\ pc = "finally"
    /\ tmp
    /\ ~proc
    /\ outcome = "zero"
    /\ Len(calls) = 2

\* C18 -- defensive null skip: at a row whose sequence is missing the next
\* step of the loop goes to the following row without a call of the adapter,
\* without an artifact or a subprocess, and with the accumulator and the
\* output file as they were.
C18_NullSkip ==
    [][(pc = "loop" /\ i <= Len(df) /\ df[i].seq = Null /\ pc' # "killed") =>
          /\ pc' = "loop"
          /\ i' = i + 1
          /\ calls' = calls
          /\ ~tmp' /\ ~proc'
          /\ processed_df' = processed_df
          /\ disk' = disk]_vars

C18_Witness ==
    /\ pc = "loop"
    /\ i = 2
    /\ Len(df) = 2
    /\ df[1].seq = Null
    /\ calls = <<>>
    /\ mode = "direct"

====
